---- MODULE Spec2Model ----
(***************************************************************************)
(* State-machine model of src/app.py: a Flask clinic application with two  *)
(* tables (Doctor, Patient), cookie sessions handled by flask_login, and   *)
(* five routes (/, /dashboard, /patients, /add_doctor, /logout) plus the   *)
(* module-level bootstrap that creates the "admin" account.                *)
(*                                                                         *)
(* Strings that the code only compares for equality (usernames, passwords, *)
(* routes) are TLA+ strings.  Strings the code searches with contains()    *)
(* (Patient.name, Patient.patient_id, the search term) are sequences of    *)
(* one-character strings so that the LIKE match can be computed.           *)
(* Columns that no handler ever reads back in a condition (full_name,      *)
(* specialty, notes) are not carried.                                      *)
(***************************************************************************)
EXTENDS Integers, Sequences, FiniteSets, TLC

VARIABLES
    doctors,    \* rows of table doctor
    patients,   \* rows of table patient
    session,    \* session[s]: the user id stored in client s's session cookie, 0 if none
    pending,    \* pending[s]: a POST /add_doctor of s that passed the pre-check and has not committed
    boot,       \* "start": the module body has not run in this process; "up": serving
    booted,     \* TRUE once the bootstrap block has completed at least once
    last        \* the most recent handler step: request, identity it ran under, response

vars == <<doctors, patients, session, pending, boot, booted, last>>

----------------------------------------------------------------------------
(* Bounds and input domains *)

MaxPatients == 2

Sessions == {"s1", "s2"}

AdminName == "admin"

AdminPassword == "admin123"

Usernames == {AdminName, "dr"}

Passwords == {AdminPassword, "pw"}

Names == {<<>>, <<"a">>}

NoSearch == <<"None">>

SearchTerms == {NoSearch, <<>>, <<"a">>, <<"_">>}

UUIDs == <<(<<"a", "1">>), (<<"b", "2">>), (<<"c", "3">>)>>

NoField == "-"

NoText == <<"-">>

NoRequest == [username |-> NoField, password |-> NoField, by |-> 0]

----------------------------------------------------------------------------
(* Credential store: flask_bcrypt *)

GeneratePasswordHash(password) == [scheme |-> "bcrypt", digest_of |-> password]

CheckPasswordHash(pw_hash, password) ==
    pw_hash.scheme = "bcrypt" /\ pw_hash.digest_of = password

----------------------------------------------------------------------------
(* Persistence layer *)

NextDoctorId == Cardinality(doctors) + 1

NextPatientId == Cardinality(patients) + 1

FindDoctorByUsername(username) == {d \in doctors : d.username = username}

UsernameTaken_never(username) == FALSE

UsernameTaken(username) == FindDoctorByUsername(username) # {}

UniqueViolation(username) == \E d \in doctors : d.username = username

NewDoctor(username, password, by) ==
    [id |-> NextDoctorId, username |-> username,
     password_hash |-> GeneratePasswordHash(password), by |-> by]

NewPatient(name, owner, uuid) ==
    [id |-> NextPatientId, patient_id |-> uuid, name |-> name,
     created_at |-> NextPatientId, doctor_id |-> owner.id, by |-> owner.id]

\* uuid.uuid4(): a token no earlier row carries; the tokens are taken in a fixed order.
FreshUUID == UUIDs[NextPatientId]

RECURSIVE LikeMatch(_, _)
LikeMatch(str, pat) ==
    IF pat = <<>> THEN str = <<>>
    ELSE IF Head(pat) = "%"
         THEN LikeMatch(str, Tail(pat)) \/ (str # <<>> /\ LikeMatch(Tail(str), pat))
    ELSE IF Head(pat) = "_"
         THEN str # <<>> /\ LikeMatch(Tail(str), Tail(pat))
    ELSE str # <<>> /\ Head(str) = Head(pat) /\ LikeMatch(Tail(str), Tail(pat))

Contains(column, term) == LikeMatch(column, <<"%">> \o term \o <<"%">>)

RECURSIVE OrderByCreatedDesc(_)
OrderByCreatedDesc(rows) ==
    IF rows = {} THEN <<>>
    ELSE LET newest == CHOOSE p \in rows : \A q \in rows : q.created_at <= p.created_at
         IN <<newest>> \o OrderByCreatedDesc(rows \ {newest})

PatientQuery_unscopedSearch(doctor_id, search_term) ==
    IF search_term # NoSearch /\ search_term # <<>>
    THEN {p \in patients :
             Contains(p.name, search_term) \/ Contains(p.patient_id, search_term)}
    ELSE {p \in patients : p.doctor_id = doctor_id}

PatientQuery(doctor_id, search_term) ==
    IF search_term # NoSearch /\ search_term # <<>>
    THEN {p \in patients :
             /\ p.doctor_id = doctor_id
             /\ (Contains(p.name, search_term) \/ Contains(p.patient_id, search_term))}
    ELSE {p \in patients : p.doctor_id = doctor_id}

Roster == {d.username : d \in {x \in doctors : x.username # AdminName}}

----------------------------------------------------------------------------
(* Session / auth manager: flask_login *)

AnonymousUser == [is_authenticated |-> FALSE, id |-> 0, username |-> "<anonymous>"]

LoadUser(user_id) ==
    IF \E d \in doctors : d.id = user_id
    THEN LET d == CHOOSE x \in doctors : x.id = user_id
         IN [is_authenticated |-> TRUE, id |-> d.id, username |-> d.username]
    ELSE AnonymousUser

CurrentUser(s) == IF session[s] = 0 THEN AnonymousUser ELSE LoadUser(session[s])

LoginUser(s, user) == [session EXCEPT ![s] = user.id]

LogoutUser_allOfDoctor(s) == [t \in Sessions |-> IF session[t] = session[s] THEN 0 ELSE session[t]]

LogoutUser(s) == [session EXCEPT ![s] = 0]

----------------------------------------------------------------------------
(* The record of one handler step *)

Form(username, password, name, search) ==
    [username |-> username, password |-> password, name |-> name, search |-> search]

NoForm == Form(NoField, NoField, NoText, NoSearch)

Event(s, route, method, step, form, user, resp, flash, listing, roster) ==
    [s |-> s, route |-> route, method |-> method, step |-> step,
     form |-> form, user |-> user.id, resp |-> resp, flash |-> flash,
     ndoctors |-> Cardinality(doctors), patients |-> listing, roster |-> roster]

Init ==
    /\ doctors = {}
    /\ patients = {}
    /\ session = [s \in Sessions |-> 0]
    /\ pending = [s \in Sessions |-> NoRequest]
    /\ boot = "start"
    /\ booted = FALSE
    /\ last = [s |-> "-", route |-> "-", method |-> "-", step |-> "-",
               form |-> NoForm, user |-> 0, resp |-> "-", flash |-> "-",
               ndoctors |-> 0, patients |-> <<>>, roster |-> {}]

----------------------------------------------------------------------------
(* Bootstrap: the "Initialize DB" block, run once per process start *)

AdminAbsent_inverted == FindDoctorByUsername(AdminName) # {}

AdminAbsent == FindDoctorByUsername(AdminName) = {}

Bootstrap ==
    /\ boot = "start"
    /\ doctors' = IF AdminAbsent
                  THEN doctors \cup {NewDoctor(AdminName, AdminPassword, 0)}
                  ELSE doctors
    /\ boot' = "up"
    /\ booted' = TRUE
    /\ last' = Event("-", "bootstrap", "-", "request", NoForm, AnonymousUser,
                     "-", "-", <<>>, {})
    /\ UNCHANGED <<patients, session, pending>>

Restart ==
    /\ boot = "up"
    /\ boot' = "start"
    /\ pending' = [s \in Sessions |-> NoRequest]
    /\ last' = Event("-", "restart", "-", "request", NoForm, AnonymousUser,
                     "-", "-", <<>>, {})
    /\ UNCHANGED <<doctors, patients, session, booted>>

----------------------------------------------------------------------------
(* Route "/" : login *)

LoginShortCircuit_never(cu) == FALSE

LoginShortCircuit(cu) == cu.is_authenticated

LoginRejected_userOnly(found, password) == found = {}

LoginRejected(found, password) ==
    \/ found = {}
    \/ \E user \in found : ~CheckPasswordHash(user.password_hash, password)

LoginGet(s) ==
    /\ boot = "up"
    /\ LET cu == CurrentUser(s)
       IN IF LoginShortCircuit(cu)
          THEN last' = Event(s, "/", "GET", "request", NoForm, cu,
                             "redirect_dashboard", "-", <<>>, {})
          ELSE last' = Event(s, "/", "GET", "request", NoForm, cu,
                             "render_login", "-", <<>>, {})
    /\ UNCHANGED <<doctors, patients, session, pending, boot, booted>>

LoginPost(s, username, password) ==
    /\ boot = "up"
    /\ LET cu == CurrentUser(s)
           form == Form(username, password, NoText, NoSearch)
           found == FindDoctorByUsername(username)
       IN IF LoginShortCircuit(cu)
          THEN /\ last' = Event(s, "/", "POST", "request", form, cu,
                                "redirect_dashboard", "-", <<>>, {})
               /\ UNCHANGED session
          ELSE IF LoginRejected(found, password)
          THEN /\ last' = Event(s, "/", "POST", "request", form, cu,
                                "redirect_login", "invalid_credentials", <<>>, {})
               /\ UNCHANGED session
          ELSE /\ session' = LoginUser(s, CHOOSE user \in found : TRUE)
               /\ last' = Event(s, "/", "POST", "request", form, cu,
                                "redirect_dashboard", "-", <<>>, {})
    /\ UNCHANGED <<doctors, patients, pending, boot, booted>>

----------------------------------------------------------------------------
(* Route "/dashboard" *)

Dashboard(s) ==
    /\ boot = "up"
    /\ LET cu == CurrentUser(s)
       IN IF ~cu.is_authenticated
          THEN last' = Event(s, "/dashboard", "GET", "request", NoForm, cu,
                             "redirect_login", "-", <<>>, {})
          ELSE IF cu.username = AdminName
          THEN last' = Event(s, "/dashboard", "GET", "request", NoForm, cu,
                             "render_dashboard", "-", <<>>, Roster)
          ELSE last' = Event(s, "/dashboard", "GET", "request", NoForm, cu,
                             "render_dashboard", "-", <<>>, {})
    /\ UNCHANGED <<doctors, patients, session, pending, boot, booted>>

----------------------------------------------------------------------------
(* Route "/patients" *)

PatientsGet(s, search_term) ==
    /\ boot = "up"
    /\ LET cu == CurrentUser(s)
           form == Form(NoField, NoField, NoText, search_term)
       IN IF ~cu.is_authenticated
          THEN last' = Event(s, "/patients", "GET", "request", form, cu,
                             "redirect_login", "-", <<>>, {})
          ELSE last' = Event(s, "/patients", "GET", "request", form, cu,
                             "render_patients", "-",
                             OrderByCreatedDesc(PatientQuery(cu.id, search_term)), {})
    /\ UNCHANGED <<doctors, patients, session, pending, boot, booted>>

PatientsPost(s, name) ==
    /\ boot = "up"
    /\ LET cu == CurrentUser(s)
           form == Form(NoField, NoField, name, NoSearch)
       IN IF ~cu.is_authenticated
          THEN /\ last' = Event(s, "/patients", "POST", "request", form, cu,
                                "redirect_login", "-", <<>>, {})
               /\ UNCHANGED patients
          ELSE /\ Cardinality(patients) < MaxPatients
               /\ patients' = patients \cup {NewPatient(name, cu, FreshUUID)}
               /\ last' = Event(s, "/patients", "POST", "request", form, cu,
                                "redirect_patients", "patient_added", <<>>, {})
    /\ UNCHANGED <<doctors, session, pending, boot, booted>>

----------------------------------------------------------------------------
(* Route "/add_doctor" *)

AddDoctorDenied_noAuthCheck(cu) == cu.is_authenticated /\ cu.username # AdminName

AddDoctorDenied_noAdminCheck(cu) == ~cu.is_authenticated

AddDoctorDenied(cu) == ~cu.is_authenticated \/ cu.username # AdminName

AddDoctorGet(s) ==
    /\ boot = "up"
    /\ LET cu == CurrentUser(s)
       IN IF AddDoctorDenied(cu)
          THEN last' = Event(s, "/add_doctor", "GET", "request", NoForm, cu,
                             "redirect_login", "-", <<>>, {})
          ELSE last' = Event(s, "/add_doctor", "GET", "request", NoForm, cu,
                             "render_add_doctor", "-", <<>>, Roster)
    /\ UNCHANGED <<doctors, patients, session, pending, boot, booted>>

\* Lines 104-117: authorization, the existence pre-check and the hashing.  The
\* request then holds a Doctor object that db.session.commit() has not yet
\* written; other requests run in between.
AddDoctorPost(s, username, password) ==
    /\ boot = "up"
    /\ pending[s] = NoRequest
    /\ LET cu == CurrentUser(s)
           form == Form(username, password, NoText, NoSearch)
       IN IF AddDoctorDenied(cu)
          THEN /\ last' = Event(s, "/add_doctor", "POST", "request", form, cu,
                                "redirect_login", "-", <<>>, {})
               /\ UNCHANGED pending
          ELSE IF UsernameTaken(username)
          THEN /\ last' = Event(s, "/add_doctor", "POST", "request", form, cu,
                                "render_add_doctor", "duplicate_username", <<>>, Roster)
               /\ UNCHANGED pending
          ELSE /\ pending' = [pending EXCEPT ![s] =
                                [username |-> username, password |-> password, by |-> cu.id]]
               /\ last' = Event(s, "/add_doctor", "POST", "request", form, cu,
                                "in_flight", "-", <<>>, {})
    /\ UNCHANGED <<doctors, patients, session, boot, booted>>

\* Lines 118-121: db.session.commit().  The unique index on doctor.username
\* rejects the INSERT with an IntegrityError that no handler catches, so the
\* request ends as an internal server error.
AddDoctorCommit(s) ==
    /\ boot = "up"
    /\ pending[s] # NoRequest
    /\ LET req == pending[s]
           form == Form(req.username, req.password, NoText, NoSearch)
           cu == [is_authenticated |-> TRUE, id |-> req.by, username |-> AdminName]
       IN IF UniqueViolation(req.username)
          THEN /\ last' = Event(s, "/add_doctor", "POST", "commit", form, cu,
                                "error_500", "-", <<>>, {})
               /\ UNCHANGED doctors
          ELSE /\ doctors' = doctors \cup {NewDoctor(req.username, req.password, req.by)}
               /\ last' = Event(s, "/add_doctor", "POST", "commit", form, cu,
                                "redirect_dashboard", "doctor_added", <<>>, {})
    /\ pending' = [pending EXCEPT ![s] = NoRequest]
    /\ UNCHANGED <<patients, session, boot, booted>>

----------------------------------------------------------------------------
(* Route "/logout" *)

Logout(s) ==
    /\ boot = "up"
    /\ session' = LogoutUser(s)
    /\ last' = Event(s, "/logout", "GET", "request", NoForm, CurrentUser(s),
                     "redirect_login", "-", <<>>, {})
    /\ UNCHANGED <<doctors, patients, pending, boot, booted>>

----------------------------------------------------------------------------

Next ==
    \/ Bootstrap
    \/ Restart
    \/ \E s \in Sessions : LoginGet(s)
    \/ \E s \in Sessions, u \in Usernames, p \in Passwords : LoginPost(s, u, p)
    \/ \E s \in Sessions : Dashboard(s)
    \/ \E s \in Sessions, q \in SearchTerms : PatientsGet(s, q)
    \/ \E s \in Sessions, n \in Names : PatientsPost(s, n)
    \/ \E s \in Sessions : AddDoctorGet(s)
    \/ \E s \in Sessions, u \in Usernames, p \in Passwords : AddDoctorPost(s, u, p)
    \/ \E s \in Sessions : AddDoctorCommit(s)
    \/ \E s \in Sessions : Logout(s)

Spec == Init /\ [][Next]_vars

TypeOK ==
    /\ \A d \in doctors : d.username \in Usernames
    /\ \A s \in Sessions : session[s] \in 0..Cardinality(doctors)
    /\ boot \in {"start", "up"}

----------------------------------------------------------------------------
(* Vocabulary of the properties *)

ProtectedRoutes == {"/dashboard", "/patients", "/add_doctor"}

\* The step taken is a request of a client session (not a bootstrap or restart).
BySession(e) == e.s \in Sessions

\* e is the start of a POST /add_doctor that passed the authorization check.
IsAddDoctorSubmit(e) ==
    /\ e.route = "/add_doctor" /\ e.method = "POST" /\ e.step = "request"
    /\ e.resp # "redirect_login"

\* e is the end of a POST /add_doctor that passed the authorization check.
IsAddDoctorDone(e) ==
    /\ e.route = "/add_doctor" /\ e.method = "POST"
    /\ e.resp \notin {"redirect_login", "in_flight"}

IsDuplicateUsername(e) == e.resp = "render_add_doctor" /\ e.flash = "duplicate_username"

UniqueUsernames == \A d1, d2 \in doctors : d1.username = d2.username => d1 = d2

Matches(p, term) == Contains(p.name, term) \/ Contains(p.patient_id, term)

----------------------------------------------------------------------------
\* C1: every patient in a rendered GET /patients listing, with or without a
\* search term, is a stored patient whose doctor_id is the id of the doctor the
\* requesting session is authenticated as, and was created by a POST /patients
\* of that doctor.
C1_PatientIsolation ==
    (last.route = "/patients" /\ last.resp = "render_patients") =>
        \A i \in 1..Len(last.patients) :
            /\ last.patients[i] \in patients
            /\ last.patients[i].doctor_id = last.user
            /\ last.patients[i].by = last.user

\* A search listing that shows a patient while another doctor owns a patient
\* that matches the same term.
C1_Witness ==
    /\ last.route = "/patients" /\ last.resp = "render_patients"
    /\ last.form.search \notin {NoSearch, <<>>}
    /\ Len(last.patients) >= 1
    /\ \E p \in patients : p.doctor_id # last.user /\ Matches(p, last.form.search)

C3_OnlyAdminProvisions ==
    /\ [][(/\ BySession(last')
           /\ last'.route = "/add_doctor"
           /\ last'.step = "request"
           /\ CurrentUser(last'.s).is_authenticated
           /\ CurrentUser(last'.s).username # AdminName)
          => (/\ last'.resp = "redirect_login"
              /\ pending' = pending
              /\ doctors' = doctors)]_vars
    /\ [][doctors' # doctors =>
            \/ last'.route = "bootstrap"
            \/ (last'.route = "/add_doctor" /\ last'.method = "POST"
                /\ last'.step = "commit")]_vars
    /\ [](\A d \in doctors :
            IF d.by = 0 THEN d.username = AdminName /\ d.id = 1
            ELSE \E a \in doctors : a.id = d.by /\ a.username = AdminName)

\* A POST /add_doctor of a logged-in non-admin doctor was turned away.
C3_Witness ==
    /\ last.route = "/add_doctor" /\ last.method = "POST"
    /\ last.user # 0 /\ LoadUser(last.user).username # AdminName
    /\ last.resp = "redirect_login"

\* C4 (as stated): whenever the admin's POST /add_doctor with username u has
\* completed and the next request is the admin's POST /add_doctor with the same
\* u, the second ends in DuplicateUsername, creates nothing, and the doctor
\* count is exactly one more than before the first request; usernames are
\* unique.
C4_SecondDuplicateCountPlusOne ==
    /\ [][(/\ IsAddDoctorDone(last)
           /\ IsAddDoctorSubmit(last')
           /\ last'.form.username = last.form.username)
          => (/\ IsDuplicateUsername(last')
              /\ doctors' = doctors
              /\ Cardinality(doctors') = last.ndoctors + 1)]_vars
    /\ []UniqueUsernames

\* C4 (amended): the second request ends in DuplicateUsername and creates
\* nothing; the count is one more than before the first request when the first
\* created the doctor, and equal to it when the first itself met a taken
\* username; usernames are unique.
C4_SecondDuplicate ==
    /\ [][(/\ IsAddDoctorDone(last)
           /\ IsAddDoctorSubmit(last')
           /\ last'.form.username = last.form.username)
          => (/\ IsDuplicateUsername(last')
              /\ doctors' = doctors
              /\ pending' = pending
              /\ (last.flash = "doctor_added"
                    => Cardinality(doctors') = last.ndoctors + 1)
              /\ (IsDuplicateUsername(last)
                    => Cardinality(doctors') = last.ndoctors))]_vars
    /\ []UniqueUsernames

\* A POST /add_doctor for a non-admin username was refused as a duplicate.
C4_Witness ==
    /\ IsAddDoctorSubmit(last) /\ IsDuplicateUsername(last)
    /\ last.form.username # AdminName
    /\ Cardinality(doctors) = 2

\* C5: a POST /add_doctor that passed the pre-check and then loses the insert
\* to a concurrent request with the same username ends in the DuplicateUsername
\* outcome.
C5_RaceLoserGetsDuplicate ==
    (/\ last.route = "/add_doctor" /\ last.step = "commit"
     /\ last.flash # "doctor_added")
    => IsDuplicateUsername(last)

\* C6: once the bootstrap has run, exactly one doctor is named "admin".
C6_ExactlyOneAdmin ==
    booted => Cardinality(FindDoctorByUsername(AdminName)) = 1

\* The bootstrap has just run again on a database that already holds the admin
\* and another doctor.
C6_Witness ==
    /\ last.route = "bootstrap"
    /\ Cardinality(doctors) = 2
    /\ patients # {}

\* C7: a POST / from an anonymous session with username u and password p binds
\* the session to a doctor exactly when a doctor named u exists whose stored
\* hash verifies p, and then to that doctor; otherwise the session stays
\* anonymous with the one generic failure response; no row changes either way.
C7_LoginIffVerified ==
    [][(/\ BySession(last')
        /\ last'.route = "/" /\ last'.method = "POST"
        /\ session[last'.s] = 0)
       => LET s == last'.s
              match == {d \in doctors :
                           /\ d.username = last'.form.username
                           /\ CheckPasswordHash(d.password_hash, last'.form.password)}
          IN /\ (session'[s] # 0) <=> (match # {})
             /\ session'[s] # 0 =>
                   (session'[s] \in {d.id : d \in match}
                    /\ last'.resp = "redirect_dashboard")
             /\ session'[s] = 0 =>
                   (last'.resp = "redirect_login"
                    /\ last'.flash = "invalid_credentials")
             /\ \A t \in Sessions \ {s} : session'[t] = session[t]
             /\ UNCHANGED <<doctors, patients>>]_vars

\* An anonymous session has just logged in as a doctor the admin created.
C7_Witness ==
    /\ last.route = "/" /\ last.method = "POST" /\ last.user = 0
    /\ BySession(last) /\ session[last.s] # 0
    /\ last.form.username # AdminName

\* C8: every stored patient has a non-empty name.
C8_NamesNonEmpty == \A p \in patients : p.name # <<>>

\* C9: GET /logout leaves the session anonymous, redirects to the login page,
\* changes no row and no other session's binding; an anonymous session becomes
\* bound only by its own successful POST /, and until then its requests to the
\* protected routes are redirected to the login page.
C9_LogoutClearsOnlyThisSession ==
    /\ [][(BySession(last') /\ last'.route = "/logout")
          => (/\ session'[last'.s] = 0
              /\ last'.resp = "redirect_login"
              /\ \A t \in Sessions \ {last'.s} : session'[t] = session[t]
              /\ UNCHANGED <<doctors, patients>>)]_vars
    /\ [][\A s \in Sessions :
            (session[s] = 0 /\ session'[s] # 0)
            => (/\ last'.s = s /\ last'.route = "/" /\ last'.method = "POST"
                /\ last'.resp = "redirect_dashboard")]_vars
    /\ [][\A s \in Sessions :
            (/\ session[s] = 0 /\ last'.s = s
             /\ last'.route \in ProtectedRoutes /\ last'.step = "request")
            => (last'.resp = "redirect_login" /\ session'[s] = 0)]_vars

\* A doctor logged out of one session while another session of the same doctor
\* stays logged in.
C9_Witness ==
    /\ last.route = "/logout" /\ last.user # 0
    /\ session[last.s] = 0
    /\ \E t \in Sessions \ {last.s} : session[t] = last.user

\* C10: a request to / from a session that is already authenticated is
\* redirected to the dashboard without touching any binding or row; a bound
\* session is never bound to a different doctor in one step, and it is unbound
\* only by its own logout.
C10_NoDirectRebind ==
    /\ [][(/\ BySession(last') /\ last'.route = "/"
           /\ session[last'.s] # 0)
          => (/\ last'.resp = "redirect_dashboard"
              /\ UNCHANGED <<session, doctors, patients>>)]_vars
    /\ [][\A s \in Sessions :
            session[s] # 0 => session'[s] \in {session[s], 0}]_vars
    /\ [][\A s \in Sessions :
            (session[s] # 0 /\ session'[s] = 0)
            => (last'.s = s /\ last'.route = "/logout")]_vars

\* A session bound to one doctor has posted the valid credentials of another.
C10_Witness ==
    /\ last.route = "/" /\ last.method = "POST" /\ last.user # 0
    /\ BySession(last) /\ session[last.s] = last.user
    /\ \E d \in doctors :
          /\ d.id # last.user
          /\ d.username = last.form.username
          /\ CheckPasswordHash(d.password_hash, last.form.password)

====
